---- MODULE Spec2Model ----
(***************************************************************************)
(* A model of the assembler (src/assembler.cpp) and of the virtual machine *)
(* (src/VM.cpp) of a custom 32-bit instruction set.                        *)
(*                                                                         *)
(* A uint32_t is a pair <<hi, lo>> of 16-bit halves (value hi*2^16 + lo):  *)
(* TLC's integers are 32-bit signed, so the halves carry the arithmetic    *)
(* modulo 2^32 within 32-bit model integers.                               *)
(***************************************************************************)
EXTENDS Integers, Sequences, FiniteSets, TLC

VARIABLES
    source,         \* the assembler's input: a sequence of lines
    lineNo,         \* the line the second pass is at (1-based)
    labels,         \* Assembler::labels
    currentAddress, \* Assembler::currentAddress
    text,           \* sections[".text"].content
    data,           \* sections[".data"].content
    currentSection, \* the section currentSection points to
    bytecode,       \* Assembler::bytecode
    asmError,       \* the message of the exception that left assemble()
    emitted,        \* the last instruction generated: line, mnemonic,
                    \* operands, word, and currentAddress at that moment
    file,       \* the binary program image on disk: a sequence of words
    memory,     \* VirtualMachine::memory, word index -> word (absent = 0)
    registers,  \* VirtualMachine::registers
    pc,         \* VirtualMachine::pc
    running,    \* VirtualMachine::running
    phase,      \* where the tools are: asm_new, pass2, assembled,
                \* asm_thrown (an exception left assemble()) for the
                \* assembler; new, loaded, run, returned (run() returned),
                \* thrown (an exception left the engine) for the engine;
                \* crashed (the process died)
    steps,      \* number of loop iterations of run() begun so far
    diag,       \* the last diagnostic written to cerr: [pc, what]
    fetched,    \* the last instruction fetched: [pc, instruction]
    memIndex    \* the last index memory[] was subscripted with by
                \* readMemory/writeMemory (-1: none yet)

asmVars == <<source, lineNo, labels, currentAddress, text, data, currentSection,
             bytecode, asmError, emitted>>

vmVars == <<memory, registers, pc, running, steps, diag, fetched, memIndex>>

vars == <<asmVars, vmVars, file, phase>>

-----------------------------------------------------------------------------
(* Bounds of the model *)

\* longest program image (in words) drawn for the binary file
MaxProg == 3

\* most loop iterations of run() explored
MaxSteps == 4

\* longest source (in lines) drawn from the pool of lines
MaxLines == 2

-----------------------------------------------------------------------------
(* Program constants *)

NUM_REGISTERS == 32

\* 0x00100000
MEMORY_SIZE == 1048576

\* 0x10000000
DATA_SECTION_START == 268435456

-----------------------------------------------------------------------------
(* uint32_t arithmetic on <<hi, lo>> *)

Half == 2^16

\* conversion of an int to uint32_t (two's complement for negatives)
U32(n) == <<(n \div Half) % Half, n % Half>>

Zero32 == <<0, 0>>

Add32(a, b) ==
    LET lo == a[2] + b[2]
        hi == a[1] + b[1] + (lo \div Half)
    IN  <<hi % Half, lo % Half>>

Not32(a) == <<(Half - 1) - a[1], (Half - 1) - a[2]>>

Sub32(a, b) == Add32(a, Add32(Not32(b), U32(1)))

\* the 32-bit product of two 16-bit numbers, as <<hi, lo>>
Mul16(x, y) ==
    LET t1 == (x \div 256) * y
        t0 == (x % 256) * y
        s  == (t1 % 256) * 256 + t0
    IN  <<((t1 \div 256) + (s \div Half)) % Half, s % Half>>

Mul32(a, b) ==
    LET p == Mul16(a[2], b[2])
    IN  <<(p[1] + Mul16(a[1], b[2])[2] + Mul16(a[2], b[1])[2]) % Half, p[2]>>

Lt32(a, b) == a[1] < b[1] \/ (a[1] = b[1] /\ a[2] < b[2])

Ge32(a, b) == ~Lt32(a, b)

\* bit i (0..31) of a
Bit32(a, i) == IF i >= 16 THEN (a[1] \div 2^(i - 16)) % 2 ELSE (a[2] \div 2^i) % 2

\* 2*r + bit, r below 2^32: the high half may take 17 bits
Shl1(r, bit) ==
    LET lo == r[2] * 2 + bit
    IN  <<r[1] * 2 + (lo \div Half), lo % Half>>

\* a - b for a >= b, high half unbounded
SubWide(a, b) ==
    LET borrow == IF a[2] < b[2] THEN 1 ELSE 0
    IN  <<a[1] - b[1] - borrow, a[2] - b[2] + Half * borrow>>

RECURSIVE DivRec(_, _, _, _, _)
DivRec(a, b, i, q, r) ==
    IF i < 0 THEN q
    ELSE LET r2 == Shl1(r, Bit32(a, i))
         IN  IF Ge32(r2, b)
             THEN DivRec(a, b, i - 1, Shl1(q, 1), SubWide(r2, b))
             ELSE DivRec(a, b, i - 1, Shl1(q, 0), r2)

\* unsigned division, b # 0
Div32(a, b) == DivRec(a, b, 31, Zero32, Zero32)

RECURSIVE And16(_, _)
And16(x, y) ==
    IF x = 0 \/ y = 0 THEN 0
    ELSE (x % 2) * (y % 2) + 2 * And16(x \div 2, y \div 2)

And32(a, b) == <<And16(a[1], b[1]), And16(a[2], b[2])>>

\* a | b = ~(~a & ~b),  a ^ b = (a | b) & ~(a & b)
Or32(a, b) == Not32(And32(Not32(a), Not32(b)))

Xor32(a, b) == And32(Or32(a, b), Not32(And32(a, b)))

\* a / 4 as an int (below 2^30)
WordIndex(a) == a[1] * 16384 + (a[2] \div 4)

-----------------------------------------------------------------------------
(* Instruction decoding *)

getOpcode(instruction) == (instruction[1] \div 1024) % 64

getRd(instruction) == (instruction[1] \div 32) % 32

getRs(instruction) == instruction[1] % 32

getRt(instruction) == (instruction[2] \div 2048) % 32

getImmediate_Unsigned(instruction) == instruction[2]

\* int16_t: the low half read as a signed 16-bit value
getImmediate(instruction) ==
    IF instruction[2] >= 32768 THEN instruction[2] - Half ELSE instruction[2]

\* 26 bits, as an int
getJumpAddress(instruction) == (instruction[1] % 1024) * Half + instruction[2]

-----------------------------------------------------------------------------
(* Memory access with address translation *)

\* memory.size(): the vector is built with MEMORY_SIZE / 4 words
MemWords == MEMORY_SIZE \div 4

Load(mem, i) == IF i \in DOMAIN mem THEN mem[i] ELSE Zero32

Store(mem, i, value) ==
    IF value = Zero32
    THEN [j \in DOMAIN mem \ {i} |-> mem[j]]
    ELSE [j \in DOMAIN mem \cup {i} |-> IF j = i THEN value ELSE mem[j]]

Translate_ToBase(address) ==
    IF Ge32(address, U32(DATA_SECTION_START))
    THEN Sub32(address, U32(DATA_SECTION_START))
    ELSE address

\* the data window is moved to the middle of the array
Translate(address) ==
    IF Ge32(address, U32(DATA_SECTION_START))
    THEN Add32(Sub32(address, U32(DATA_SECTION_START)), U32(MEMORY_SIZE \div 2))
    ELSE address

\* the guard before the throw in readMemory / writeMemory
OutOfBounds(address) == Ge32(address, U32(MEMORY_SIZE * 4))

\* what a read past the end of the vector may return
Garbage == {Zero32, <<57005, 48879>>}

\* The outcomes of readMemory(address).  Subscripting the vector at or past
\* its size is undefined: the read returns whatever lies there, or the
\* process dies.
readMemory(mem, address) ==
    LET t == Translate(address)
        i == WordIndex(t)
    IN  IF OutOfBounds(t)
        THEN {[kind |-> "fault", index |-> -1, value |-> Zero32]}
        ELSE IF i < MemWords
        THEN {[kind |-> "ok", index |-> i, value |-> Load(mem, i)]}
        ELSE {[kind |-> "ok", index |-> i, value |-> g] : g \in Garbage}
             \cup {[kind |-> "crash", index |-> i, value |-> Zero32]}

\* The outcomes of writeMemory(address, value).  A write past the end of the
\* vector lands outside memory (the engine's state keeps its values), or the
\* process dies.
writeMemory(mem, address, value) ==
    LET t == Translate(address)
        i == WordIndex(t)
    IN  IF OutOfBounds(t)
        THEN {[kind |-> "fault", index |-> -1, memory |-> mem]}
        ELSE IF i < MemWords
        THEN {[kind |-> "ok", index |-> i, memory |-> Store(mem, i, value)]}
        ELSE {[kind |-> "ok", index |-> i, memory |-> mem],
              [kind |-> "crash", index |-> i, memory |-> mem]}

-----------------------------------------------------------------------------
(* The instruction handlers.  Each returns the set of its outcomes:         *)
(*   kind      "ok" (returned), "fault" (threw runtime_error), "crash"      *)
(*   what      the exception's message                                      *)
(*   registers, memory, pc, running   the engine's fields afterwards        *)
(*   index     the index memory[] was subscripted with, or -1               *)

Outcome(kind, what, regs, mem, pc_, running_, index) ==
    [kind |-> kind, what |-> what, registers |-> regs, memory |-> mem,
     pc |-> pc_, running |-> running_, index |-> index]

Wrote(regs, mem, pc_, rd, value) ==
    {Outcome("ok", "", [regs EXCEPT ![rd] = value], mem, pc_, TRUE, -1)}

Threw(what, regs, mem, pc_) == {Outcome("fault", what, regs, mem, pc_, TRUE, -1)}

\* what a division the hardware traps on does to the process
DivR_Unchecked(regs, mem, pc_, rd, rs, rt) ==
    IF regs[rt] = Zero32
    THEN {Outcome("crash", "", regs, mem, pc_, TRUE, -1)}
    ELSE Wrote(regs, mem, pc_, rd, Div32(regs[rs], regs[rt]))

\* case 3, DIV: the divisor is tested before anything is written
DivR(regs, mem, pc_, rd, rs, rt) ==
    IF regs[rt] = Zero32
    THEN Threw("Division by zero", regs, mem, pc_)
    ELSE Wrote(regs, mem, pc_, rd, Div32(regs[rs], regs[rt]))

\* case 17, DIVI: the immediate is tested before anything is written
DivI(regs, mem, pc_, rd, rs, imm) ==
    IF imm = 0
    THEN Threw("Division by zero", regs, mem, pc_)
    ELSE Wrote(regs, mem, pc_, rd, Div32(regs[rs], U32(imm)))

executeRType(instruction, regs, mem, pc_) ==
    LET rd == getRd(instruction)
        rs == getRs(instruction)
        rt == getRt(instruction)
        op == getOpcode(instruction)
        W(value) == Wrote(regs, mem, pc_, rd, value)
    IN  CASE op = 0  -> W(Add32(regs[rs], regs[rt]))
          [] op = 1  -> W(Sub32(regs[rs], regs[rt]))
          [] op = 2  -> W(Mul32(regs[rs], regs[rt]))
          [] op = 3  -> DivR(regs, mem, pc_, rd, rs, rt)
          [] op = 4  -> W(Not32(regs[rs]))
          [] op = 5  -> W(And32(regs[rs], regs[rt]))
          [] op = 6  -> W(Not32(And32(regs[rs], regs[rt])))
          [] op = 7  -> W(Or32(regs[rs], regs[rt]))
          [] op = 8  -> W(Xor32(regs[rs], regs[rt]))
          [] op = 9  -> W(Not32(Xor32(regs[rs], regs[rt])))
          [] op = 10 -> W(regs[rs])
          [] op = 11 -> W(IF Lt32(regs[rt], regs[rs]) THEN U32(1) ELSE Zero32)
          [] op = 12 -> W(IF Lt32(regs[rs], regs[rt]) THEN U32(1) ELSE Zero32)
          [] op = 13 -> W(Add32(Mul32(regs[rs], regs[rt]), regs[rd]))
          [] OTHER   -> {Outcome("ok", "", regs, mem, pc_, TRUE, -1)}

\* LW, LB: registers[rd] = readMemory(address) & mask
LoadInto(regs, mem, pc_, rd, address, mask) ==
    {IF r.kind = "fault"
     THEN Outcome("fault", "Memory access out of bounds", regs, mem, pc_, TRUE, -1)
     ELSE Outcome(r.kind, "", IF r.kind = "ok"
                              THEN [regs EXCEPT ![rd] = And32(r.value, mask)]
                              ELSE regs,
                  mem, pc_, TRUE, r.index)
     : r \in readMemory(mem, address)}

\* SW, SB: writeMemory(address, value)
StoreFrom(regs, mem, pc_, address, value) ==
    {IF w.kind = "fault"
     THEN Outcome("fault", "Memory access out of bounds", regs, mem, pc_, TRUE, -1)
     ELSE Outcome(w.kind, "", regs, w.memory, pc_, TRUE, w.index)
     : w \in writeMemory(mem, address, value)}

BeqTarget_Unscaled(pc_, imm) == Add32(pc_, U32(imm - 4))

\* BEQ taken: pc += ((imm - 4) * 4)
BeqTarget(pc_, imm) == Add32(pc_, U32((imm - 4) * 4))

BneTarget_LikeBeq(pc_, imm) == Add32(pc_, U32((imm - 4) * 4))

\* BNE taken: pc += (imm * 4)
BneTarget(pc_, imm) == Add32(pc_, U32(imm * 4))

AllOnes == <<Half - 1, Half - 1>>

ByteMask_Word == AllOnes

\* & 0xFF
ByteMask == <<0, 255>>

executeIType(instruction, regs, mem, pc_) ==
    LET rd  == getRd(instruction)
        rs  == getRs(instruction)
        imm == getImmediate(instruction)
        op  == getOpcode(instruction)
        ea  == Add32(regs[rs], U32(imm))
        W(value) == Wrote(regs, mem, pc_, rd, value)
        Same(p) == {Outcome("ok", "", regs, mem, p, TRUE, -1)}
    IN  CASE op = 14 -> W(Add32(regs[rs], U32(imm)))
          [] op = 15 -> W(Sub32(regs[rs], U32(imm)))
          [] op = 16 -> W(Mul32(regs[rs], U32(imm)))
          [] op = 17 -> DivI(regs, mem, pc_, rd, rs, imm)
          [] op = 18 -> W(And32(regs[rs], U32(imm)))
          [] op = 19 -> W(Not32(And32(regs[rs], U32(imm))))
          [] op = 20 -> W(Or32(regs[rs], U32(imm)))
          [] op = 21 -> W(Xor32(regs[rs], U32(imm)))
          [] op = 22 -> LoadInto(regs, mem, pc_, rd, ea, AllOnes)
          [] op = 23 -> StoreFrom(regs, mem, pc_, ea, regs[rd])
          [] op = 24 -> LoadInto(regs, mem, pc_, rd, ea, ByteMask)
          [] op = 25 -> StoreFrom(regs, mem, pc_, ea, And32(regs[rd], ByteMask))
          [] op = 26 -> Same(IF regs[rd] = regs[rs] THEN BeqTarget(pc_, imm) ELSE pc_)
          [] op = 27 -> Same(IF regs[rd] # regs[rs] THEN BneTarget(pc_, imm) ELSE pc_)
          [] op = 28 -> W(Zero32)
          [] op = 31 -> {Outcome("ok", "", regs, mem, pc_, FALSE, -1)}
          [] OTHER   -> Same(pc_)

\* JUMP: pc = address * 4; pc -= 8
JumpTarget(address) == Sub32(U32(address * 4), U32(8))

JalTarget_LikeJump(address) == Sub32(U32(address * 4), U32(8))

\* JAL: pc = address * 4; pc -= 4
JalTarget(address) == Sub32(U32(address * 4), U32(4))

\* JAL: registers[31] = pc + 4
JalLink(pc_) == Add32(pc_, U32(4))

executeJType(instruction, regs, mem, pc_) ==
    LET address == getJumpAddress(instruction)
        op      == getOpcode(instruction)
    IN  CASE op = 29 -> {Outcome("ok", "", regs, mem, JumpTarget(address), TRUE, -1)}
          [] op = 30 -> {Outcome("ok", "", [regs EXCEPT ![31] = JalLink(pc_)], mem,
                                 JalTarget(address), TRUE, -1)}
          [] OTHER   -> {Outcome("ok", "", regs, mem, pc_, TRUE, -1)}

\* the operation each case of the three handlers implements, by opcode
EngineOperations ==
    << "ADD", "SUB", "MUL", "DIV", "INV", "AND", "NAND", "OR", "XOR", "XNOR",
       "MOV", "SGT", "SLT", "MA",
       "ADDI", "SUBI", "MULI", "DIVI", "ANDI", "NANDI", "ORI", "XORI",
       "LW", "SW", "LB", "SB", "BEQ", "BNE", "RESET",
       "JUMP", "JAL", "EXT" >>

OperationOf(opcode) == EngineOperations[opcode + 1]

-----------------------------------------------------------------------------
(* Strings, as the assembler reads them.  A string is a sequence of         *)
(* characters; position 0 is "not found" (string::npos).                    *)

\* the character at position i, or "" at and past the end (s[s.size()] is
\* the terminating NUL)
Char(s, i) == IF 1 <= i /\ i <= Len(s) THEN SubSeq(s, i, i) ELSE ""

\* isspace
IsSpace(c) == c \in {" ", "\t", "\n", "\r", "\f"}

RECURSIVE FindFrom(_, _, _)
FindFrom(s, c, i) ==
    IF i > Len(s) THEN 0
    ELSE IF Char(s, i) = c THEN i ELSE FindFrom(s, c, i + 1)

\* string::find
Find(s, c) == FindFrom(s, c, 1)

\* label.erase(remove_if(..., isspace), ...)
RECURSIVE RemoveSpaces(_)
RemoveSpaces(s) ==
    IF s = "" THEN ""
    ELSE IF IsSpace(Char(s, 1)) THEN RemoveSpaces(Tail(s))
    ELSE Char(s, 1) \o RemoveSpaces(Tail(s))

\* erase(0, find_first_not_of(" \t"))
RECURSIVE TrimLeft(_)
TrimLeft(s) ==
    IF s # "" /\ Char(s, 1) \in {" ", "\t"} THEN TrimLeft(Tail(s)) ELSE s

\* erase(find_last_not_of(" \t") + 1)
RECURSIVE TrimRight(_)
TrimRight(s) ==
    IF s # "" /\ Char(s, Len(s)) \in {" ", "\t"}
    THEN TrimRight(SubSeq(s, 1, Len(s) - 1))
    ELSE s

\* the tokens operator>> extracts from a stringstream: maximal runs of
\* characters that are not white space
RECURSIVE TokensFrom(_, _, _)
TokensFrom(s, i, cur) ==
    IF i > Len(s) THEN (IF cur = "" THEN <<>> ELSE <<cur>>)
    ELSE IF IsSpace(Char(s, i))
    THEN (IF cur = "" THEN <<>> ELSE <<cur>>) \o TokensFrom(s, i + 1, "")
    ELSE TokensFrom(s, i + 1, cur \o Char(s, i))

Tokens(s) == TokensFrom(s, 1, "")

Lower == "abcdefghijklmnopqrstuvwxyz"

Upper == "ABCDEFGHIJKLMNOPQRSTUVWXYZ"

\* transform(..., ::toupper)
RECURSIVE ToUpper(_)
ToUpper(s) ==
    IF s = "" THEN ""
    ELSE LET k == Find(Lower, Char(s, 1))
         IN  (IF k = 0 THEN Char(s, 1) ELSE Char(Upper, k)) \o ToUpper(Tail(s))

\* if (x.back() == ',') x.pop_back()
DropComma(token) ==
    IF token # "" /\ Char(token, Len(token)) = ","
    THEN SubSeq(token, 1, Len(token) - 1)
    ELSE token

Digits == "0123456789"

MinInt == -2147483647 - 1

\* the digits from position i on, accumulated as a negative number; 1 when
\* the value leaves the range of int
RECURSIVE DigitsFrom(_, _, _)
DigitsFrom(s, i, acc) ==
    IF i > Len(s) \/ Find(Digits, Char(s, i)) = 0 THEN acc
    ELSE LET d == Find(Digits, Char(s, i)) - 1
         IN  IF acc < -214748364 \/ (acc = -214748364 /\ d > 8) THEN 1
             ELSE DigitsFrom(s, i + 1, acc * 10 - d)

RECURSIVE SkipSpaces(_, _)
SkipSpaces(s, i) ==
    IF i <= Len(s) /\ IsSpace(Char(s, i)) THEN SkipSpaces(s, i + 1) ELSE i

\* std::stoi: leading white space, an optional sign, decimal digits; what
\* follows the digits is ignored.  No digit: invalid_argument; a value
\* outside int: out_of_range.
stoi(s) ==
    LET i    == SkipSpaces(s, 1)
        sign == IF i <= Len(s) /\ Char(s, i) \in {"+", "-"} THEN Char(s, i) ELSE ""
        j    == IF sign = "" THEN i ELSE i + 1
        neg  == DigitsFrom(s, j, 0)
    IN  IF j > Len(s) \/ Find(Digits, Char(s, j)) = 0
        THEN [ok |-> FALSE, value |-> 0, error |-> "stoi: invalid_argument"]
        ELSE IF neg = 1 \/ (sign # "-" /\ neg = MinInt)
        THEN [ok |-> FALSE, value |-> 0, error |-> "stoi: out_of_range"]
        ELSE [ok |-> TRUE, value |-> IF sign = "-" THEN neg ELSE -neg, error |-> ""]

-----------------------------------------------------------------------------
(* The assembler's instruction table and code generators *)

Ins(type, opcode) == [type |-> type, opcode |-> opcode]

\* map<string, Instruction> instructions
instructions ==
    "ADD" :> Ins("R", 0) @@ "SUB" :> Ins("R", 1) @@ "MUL" :> Ins("R", 2) @@
    "DIV" :> Ins("R", 3) @@ "INV" :> Ins("R", 4) @@ "AND" :> Ins("R", 5) @@
    "NAND" :> Ins("R", 6) @@ "OR" :> Ins("R", 7) @@ "XOR" :> Ins("R", 8) @@
    "XNOR" :> Ins("R", 9) @@ "MOV" :> Ins("R", 10) @@ "SGT" :> Ins("R", 11) @@
    "SLT" :> Ins("R", 12) @@ "MA" :> Ins("R", 13) @@
    "ADDI" :> Ins("I", 14) @@ "SUBI" :> Ins("I", 15) @@ "MULI" :> Ins("I", 16) @@
    "DIVI" :> Ins("I", 17) @@ "INVI" :> Ins("I", 18) @@ "ANDI" :> Ins("I", 19) @@
    "NANDI" :> Ins("I", 20) @@ "ORI" :> Ins("I", 21) @@ "XORI" :> Ins("I", 22) @@
    "XNORI" :> Ins("I", 23) @@ "MOVI" :> Ins("I", 24) @@ "SGTI" :> Ins("I", 25) @@
    "SLTI" :> Ins("I", 26) @@ "MAI" :> Ins("I", 27) @@ "EXT" :> Ins("I", 31) @@
    "JUMP" :> Ins("J", 29) @@ "JAL" :> Ins("J", 30)

\* x << k on uint32_t
Shl32(x, k) == Mul32(x, U32(2^k))

\* static_cast<uint32_t>(instructions[op].opcode) << 26
OpcodeBits(op) == Shl32(U32(instructions[op].opcode), 26)

Failed(error) == [ok |-> FALSE, value |-> 0, error |-> error]

parseRegister(reg) ==
    IF Char(reg, 1) \notin {"R", "r"}
    THEN Failed("Invalid register format")
    ELSE stoi(SubSeq(reg, 2, Len(reg)))

parseImmediate(imm) ==
    IF Char(imm, 1) = "#" THEN stoi(SubSeq(imm, 2, Len(imm))) ELSE stoi(imm)

\* A generator returns kind "ok" with the word, "throw" with the exception's
\* message, or "undefined" when it subscripts the operand vector past its
\* end.
Word(w) == [kind |-> "ok", word |-> w, error |-> ""]

Throw(error) == [kind |-> "throw", word |-> Zero32, error |-> error]

Undefined == [kind |-> "undefined", word |-> Zero32, error |-> ""]

UnknownLabel_AsZero == Word(Zero32)

\* the operand is no number and labels.find(operand) == labels.end()
UnknownLabel == Throw("Unknown label")

\* instruction |= parseRegister(operands[k - 1]) << shift, then `next`
WithRegister(operands, k, shift, instruction, next(_)) ==
    IF k > Len(operands) THEN Undefined
    ELSE LET r == parseRegister(operands[k])
         IN  IF ~r.ok THEN Throw(r.error)
             ELSE next(Or32(instruction, Shl32(U32(r.value), shift)))

generateRType_RtAt16(op, operands) ==
    LET Rt(w) == WithRegister(operands, 3, 16, w, Word)
        Rs3(w) == WithRegister(operands, 2, 16, w, Rt)
        Rs2(w) == WithRegister(operands, 2, 16, w, Word)
    IN  IF Len(operands) >= 3 THEN WithRegister(operands, 1, 21, OpcodeBits(op), Rs3)
        ELSE IF Len(operands) = 2 THEN WithRegister(operands, 1, 21, OpcodeBits(op), Rs2)
        ELSE Word(OpcodeBits(op))

generateRType(op, operands) ==
    LET Rt(w) == WithRegister(operands, 3, 11, w, Word)
        Rs3(w) == WithRegister(operands, 2, 16, w, Rt)
        Rs2(w) == WithRegister(operands, 2, 16, w, Word)
    IN  IF Len(operands) >= 3 THEN WithRegister(operands, 1, 21, OpcodeBits(op), Rs3)
        ELSE IF Len(operands) = 2 THEN WithRegister(operands, 1, 21, OpcodeBits(op), Rs2)
        ELSE Word(OpcodeBits(op))

LabelImmediate_InWords(labs, label, address) == (labs[label] - (address + 4)) \div 4

\* the displacement emitted for a label operand of an I-type instruction
LabelImmediate(labs, label, address) == labs[label] - (address + 4)

\* the word address emitted for a label operand of a J-type instruction
LabelWordAddress(labs, label) == labs[label] \div 4

generateIType(op, operands, labs, address) ==
    LET Imm(w) ==
            IF Len(operands) < 3 THEN Undefined
            ELSE LET p == parseImmediate(operands[3])
                 IN  IF p.ok THEN Word(Or32(w, <<0, p.value % Half>>))
                     ELSE IF operands[3] \in DOMAIN labs
                     THEN Word(Or32(w, <<0, LabelImmediate(labs, operands[3], address) % Half>>))
                     ELSE UnknownLabel
        Rs(w) == WithRegister(operands, 2, 16, w, Imm)
    IN  IF op = "EXT" THEN Word(OpcodeBits(op))
        ELSE WithRegister(operands, 1, 21, OpcodeBits(op), Rs)

generateJType(op, operands, labs) ==
    IF Len(operands) < 1 THEN Undefined
    ELSE LET p == parseImmediate(operands[1])
             A(address) == Word(Or32(OpcodeBits(op), U32(address % 2^26)))
         IN  IF p.ok THEN A(p.value)
             ELSE IF operands[1] \in DOMAIN labs
             THEN A(LabelWordAddress(labs, operands[1]))
             ELSE UnknownLabel

-----------------------------------------------------------------------------
(* The assembler's two passes *)

\* the line up to a ';'
StripComment(line) ==
    LET commentPos == Find(line, ";")
    IN  IF commentPos = 0 THEN line ELSE SubSeq(line, 1, commentPos - 1)

\* the line after its "label:" prefix, if it has one
AfterLabel(processedLine) ==
    LET labelEnd == Find(processedLine, ":")
    IN  IF labelEnd = 0 THEN processedLine
        ELSE SubSeq(processedLine, labelEnd + 1, Len(processedLine))

Bind(labs, label, address) ==
    [l \in DOMAIN labs \cup {label} |-> IF l = label THEN address ELSE labs[l]]

NoLabels == [l \in {} |-> 0]

\* a first pass that, like the second pass, does not count a line whose
\* residue is blank
RECURSIVE firstPassFrom_SkipsBlank(_, _, _, _)
firstPassFrom_SkipsBlank(lines, i, labs, address) ==
    IF i > Len(lines) THEN [labels |-> labs, currentAddress |-> address]
    ELSE IF lines[i] = "" \/ Char(lines[i], 1) = ";"
    THEN firstPassFrom_SkipsBlank(lines, i + 1, labs, address)
    ELSE LET processedLine == StripComment(lines[i])
             labelEnd == Find(processedLine, ":")
             label    == RemoveSpaces(SubSeq(processedLine, 1, labelEnd - 1))
         IN  firstPassFrom_SkipsBlank(lines, i + 1,
                 IF labelEnd # 0 THEN Bind(labs, label, address) ELSE labs,
                 IF TrimRight(TrimLeft(AfterLabel(processedLine))) # ""
                 THEN address + 4 ELSE address)

\* Assembler::firstPass from line i on
RECURSIVE firstPassFrom(_, _, _, _)
firstPassFrom(lines, i, labs, address) ==
    IF i > Len(lines) THEN [labels |-> labs, currentAddress |-> address]
    ELSE IF lines[i] = "" \/ Char(lines[i], 1) = ";"
    THEN firstPassFrom(lines, i + 1, labs, address)
    ELSE LET processedLine == StripComment(lines[i])
             labelEnd == Find(processedLine, ":")
             label    == RemoveSpaces(SubSeq(processedLine, 1, labelEnd - 1))
         IN  firstPassFrom(lines, i + 1,
                 IF labelEnd # 0 THEN Bind(labs, label, address) ELSE labs,
                 IF AfterLabel(processedLine) # "" THEN address + 4 ELSE address)

firstPass(lines) == firstPassFrom(lines, 1, NoLabels, 0)

\* the second pass's processedLine: comment and label removed, trimmed
Residue(line) == TrimRight(TrimLeft(AfterLabel(StripComment(line))))

\* the second pass skips the line
Skipped(line) == line = "" \/ Char(line, 1) = ";" \/ Residue(line) = ""

FirstToken(line) ==
    IF Tokens(Residue(line)) = <<>> THEN "" ELSE Head(Tokens(Residue(line)))

RestTokens(line) ==
    IF Tokens(Residue(line)) = <<>> THEN <<>> ELSE Tail(Tokens(Residue(line)))

Operands(line) == [k \in 1..Len(RestTokens(line)) |-> DropComma(RestTokens(line)[k])]

\* textBaseAddress, dataBaseAddress
SectionBase(section) == IF section = ".data" THEN DATA_SECTION_START ELSE 0

\* the .word loop of handleDirective from value k on
RECURSIVE wordsFrom(_, _, _, _)
wordsFrom(values, k, content, address) ==
    IF k > Len(values) THEN [error |-> "", data |-> content, currentAddress |-> address]
    ELSE LET v == stoi(DropComma(values[k]))
         IN  IF ~v.ok THEN [error |-> v.error, data |-> content, currentAddress |-> address]
             ELSE wordsFrom(values, k + 1, Append(content, U32(v.value)), address + 4)

\* Assembler::assemble up to the second pass: initializeSections, firstPass,
\* currentAddress = 0, bytecode.clear()
assembleBegin ==
    /\ phase = "asm_new"
    /\ labels' = firstPass(source).labels
    /\ currentAddress' = 0
    /\ bytecode' = <<>>
    /\ text' = <<>>
    /\ data' = <<>>
    /\ currentSection' = ".text"
    /\ lineNo' = 1
    /\ phase' = "pass2"
    /\ UNCHANGED <<source, asmError, emitted, file, vmVars>>

InPass2 == phase = "pass2" /\ lineNo <= Len(source)

\* an exception leaves assemble()
assembleThrows(error) ==
    /\ asmError' = error
    /\ phase' = "asm_thrown"

\* the second pass on a line it skips
assembleSkip ==
    /\ InPass2
    /\ Skipped(source[lineNo])
    /\ lineNo' = lineNo + 1
    /\ UNCHANGED <<source, labels, currentAddress, text, data, currentSection,
                   bytecode, asmError, emitted, file, phase, vmVars>>

\* the second pass on a directive: Assembler::handleDirective
assembleDirective ==
    /\ InPass2
    /\ ~Skipped(source[lineNo])
    /\ Char(FirstToken(source[lineNo]), 1) = "."
    /\ LET directive == FirstToken(source[lineNo])
           w == wordsFrom(RestTokens(source[lineNo]), 1, data, currentAddress)
       IN  IF directive \in {".text", ".data"}
           THEN /\ currentSection' = directive
                /\ currentAddress' = SectionBase(directive)
                /\ lineNo' = lineNo + 1
                /\ UNCHANGED <<data, asmError, phase>>
           ELSE IF directive = ".word"
           THEN /\ data' = w.data
                /\ currentAddress' = w.currentAddress
                /\ IF w.error = ""
                   THEN lineNo' = lineNo + 1 /\ UNCHANGED <<asmError, phase>>
                   ELSE lineNo' = lineNo /\ assembleThrows(w.error)
                /\ UNCHANGED currentSection
           ELSE /\ lineNo' = lineNo + 1
                /\ UNCHANGED <<data, currentAddress, currentSection, asmError, phase>>
    /\ UNCHANGED <<source, labels, text, bytecode, emitted, file, vmVars>>

\* NOP given the word of ADD R0, R0, R1 instead of the all-zero word
Generate_NopAddsR1(op, operands, labs, address) ==
    IF op = "NOP" THEN Word(<<0, 2048>>)
    ELSE IF op \notin DOMAIN instructions THEN Throw("Unknown instruction")
    ELSE CASE instructions[op].type = "R" -> generateRType(op, operands)
           [] instructions[op].type = "I" -> generateIType(op, operands, labs, address)
           [] instructions[op].type = "J" -> generateJType(op, operands, labs)

\* what the generator selected for the mnemonic returns
Generate(op, operands, labs, address) ==
    IF op = "NOP" THEN Word(Zero32)
    ELSE IF op \notin DOMAIN instructions THEN Throw("Unknown instruction")
    ELSE CASE instructions[op].type = "R" -> generateRType(op, operands)
           [] instructions[op].type = "I" -> generateIType(op, operands, labs, address)
           [] instructions[op].type = "J" -> generateJType(op, operands, labs)

\* the second pass on an instruction line
assembleInstruction ==
    /\ InPass2
    /\ ~Skipped(source[lineNo])
    /\ Char(FirstToken(source[lineNo]), 1) # "."
    /\ LET op == ToUpper(FirstToken(source[lineNo]))
           operands == Operands(source[lineNo])
           g == Generate(op, operands, labels, currentAddress)
       IN  CASE g.kind = "ok" ->
                 /\ text' = IF currentSection = ".text" THEN Append(text, g.word) ELSE text
                 /\ data' = IF currentSection = ".data" THEN Append(data, g.word) ELSE data
                 /\ currentAddress' = currentAddress + 4
                 /\ emitted' = [line |-> lineNo, op |-> op, operands |-> operands,
                                word |-> g.word, address |-> currentAddress]
                 /\ lineNo' = lineNo + 1
                 /\ UNCHANGED <<asmError, phase>>
             [] g.kind = "throw" ->
                 /\ assembleThrows(g.error)
                 /\ UNCHANGED <<text, data, currentAddress, emitted, lineNo>>
             [] g.kind = "undefined" ->
                 \* an operand read past the end of the vector: the
                 \* process dies, or the bytes read are no operand
                 /\ \/ phase' = "crashed" /\ asmError' = asmError
                    \/ assembleThrows("undefined operand")
                 /\ UNCHANGED <<text, data, currentAddress, emitted, lineNo>>
    /\ UNCHANGED <<source, labels, currentSection, bytecode, file, vmVars>>

\* the second pass is over: assemble() returns
assembleReturn ==
    /\ phase = "pass2"
    /\ lineNo > Len(source)
    /\ phase' = "assembled"
    /\ UNCHANGED <<asmVars, file, vmVars>>

\* the caller writes the image once assemble() has returned
MainWritesOutput == phase = "assembled"

writeOutput_DataFirst ==
    /\ MainWritesOutput
    /\ file' = data \o text \o bytecode
    /\ phase' = "new"
    /\ UNCHANGED <<asmVars, vmVars>>

\* Assembler::writeOutput: the .text words, the .data words, then bytecode
writeOutput ==
    /\ MainWritesOutput
    /\ file' = text \o data \o bytecode
    /\ phase' = "new"
    /\ UNCHANGED <<asmVars, vmVars>>

\* the program of the branch test of the specification
BranchProgram ==
    << "start:",
       "  ADDI R1, R0, #5",
       "  BEQ  R1, R0, end",
       "  ADDI R1, R1, #1",
       "end:",
       "  EXT" >>

\* whole programs given to the assembler
Programs ==
    { BranchProgram,
      << "  JAL f", "  EXT", "f: ADDI R1, R0, #7", "  EXT" >>,
      << "  jump over ; skip", "  NOP", "over: EXT" >>,
      << "  ADDI R1, R0, #6", "  ANDI R2, R1, #3", "  EXT" >>,
      << "  MOVI R2, R0, #9", "  EXT" >>,
      << ".data", ".word 7, 8", ".text", "  ADDI R1, R0, data", "  EXT" >>,
      << "  ADDI R1, R0, #1", "  JUMP nowhere", "  EXT" >>,
      << "  ADDI R1, R0, #1", "  .word 9", ".data", "v: .word 7, 8", "  NOP",
         ".text", "  EXT" >>,
      << "8: ADDI R1, R0, 8", "  JUMP 8", "  EXT" >>,
      << "  ADD R32, R1, R2", "  SUBI R1, R-1, #0", "  MOV R1, R40", "  EXT" >> }

\* lines that sources of up to MaxLines lines are made of
LinePool ==
    { "", "; comment", "   ", "l: ",
      "l: EXT", "NOP", "ADD R1, R2, R3", "MA R3, R31",
      "ADDI R1, R0, #-1", "SUBI R1, R0, l", "ANDI R1, R1, 3",
      "JAL l", "JUMP 1", "JAL 0",
      ".data", ".text", ".word 5, -1", ".word x", ".align 4",
      "BNE R1, R0, l", "ADD 1, 2", "ADDI R1, R0, m", "ADDI R1", "JUMP" }

Sources == Programs \cup UNION {[1..n -> LinePool] : n \in 1..MaxLines}

-----------------------------------------------------------------------------
(* Program images *)

\* instruction words by field, as the decoders above read them
RWord(op, rd, rs, rt) == <<op * 1024 + rd * 32 + rs, rt * 2048>>

IWord(op, rd, rs, imm) == <<op * 1024 + rd * 32 + rs, imm % Half>>

JWord(op, address) == <<op * 1024 + (address \div Half), address % Half>>

\* The words an image is drawn from: instructions of every format, with
\* destination 0 and not, faulting and not, and raw data words that the
\* program loads as addresses.
Pool ==
    { RWord(0, 0, 0, 0),          \* NOP (ADD R0, R0, R0)
      RWord(3, 2, 1, 0),          \* DIV R2, R1, R0
      RWord(3, 2, 1, 1),          \* DIV R2, R1, R1
      RWord(13, 0, 1, 1),         \* MA  R0, R1, R1
      IWord(14, 1, 0, 5),         \* ADDI R1, R0, #5
      IWord(14, 0, 1, 5),         \* ADDI R0, R1, #5
      IWord(17, 2, 1, 0),         \* DIVI R2, R1, #0
      IWord(17, 2, 1, -2),        \* DIVI R2, R1, #-2
      IWord(22, 1, 0, 8),         \* LW R1, R0, #8
      IWord(22, 0, 1, 0),         \* LW R0, R1, #0
      IWord(23, 1, 1, 0),         \* SW R1, R1, #0
      IWord(24, 2, 1, 0),         \* LB R2, R1, #0
      IWord(25, 1, 1, 4),         \* SB R1, R1, #4
      IWord(26, 1, 0, 5),         \* BEQ R1, R0, #5
      IWord(26, 0, 0, 0),         \* BEQ R0, R0, #0
      IWord(27, 1, 0, 1),         \* BNE R1, R0, #1
      IWord(27, 1, 0, -2),        \* BNE R1, R0, #-2
      JWord(29, 2),               \* JUMP 2
      JWord(29, 262146),          \* JUMP 0x40002
      JWord(30, 2),               \* JAL 2
      JWord(30, 0),               \* JAL 0
      IWord(31, 0, 0, 0),         \* EXT
      <<32768, 0>>,               \* 0x80000000: opcode 32
      <<16, 0>>,                  \* 0x00100000: the first byte address past memory
      <<4096, 4>> }               \* 0x10000004: in the data window

\* a program that stores through the data window and loads the word back
\* through its physical address
AliasProgram ==
    << IWord(22, 1, 0, 16),       \* LW R1, R0, #16
       IWord(22, 3, 0, 20),       \* LW R3, R0, #20
       IWord(23, 1, 1, 0),        \* SW R1, R1, #0
       IWord(22, 2, 3, 0),        \* LW R2, R3, #0
       <<4096, 4>>,               \* 0x10000004
       <<8, 4>> >>                \* 0x00080004: MEMORY_SIZE / 2 + 4

\* programs at the edges of the opcode ranges of the dispatch
DispatchPrograms ==
    { << IWord(14, 1, 0, 5), IWord(28, 1, 0, 0), IWord(31, 0, 0, 0) >>,  \* RESET R1
      << IWord(14, 1, 0, 5), <<64512, 1>> >>,                            \* opcode 63
      << IWord(14, 1, 0, 5), RWord(13, 1, 1, 1), IWord(31, 1, 1, 7) >> } \* MA, EXT

\* a program that stores two bytes into the same word of the image
ByteProgram ==
    << IWord(14, 1, 0, -2),       \* ADDI R1, R0, #-2
       IWord(25, 1, 0, 21),       \* SB R1, R0, #21
       IWord(14, 2, 0, 308),      \* ADDI R2, R0, #0x134
       IWord(25, 2, 0, 22),       \* SB R2, R0, #22
       IWord(31, 0, 0, 0),        \* EXT
       <<43707, 52445>> >>        \* 0xAABBCCDD

Images ==
    UNION {[1..n -> Pool] : n \in 1..MaxProg}
        \cup {AliasProgram} \cup DispatchPrograms \cup {ByteProgram}

-----------------------------------------------------------------------------
(* The engine *)

NoDiag == [pc |-> Zero32, what |-> ""]

NoneEmitted ==
    [line |-> 0, op |-> "", operands |-> <<>>, word |-> Zero32, address |-> 0]

\* Assembler::Assembler and VirtualMachine::VirtualMachine: either tool
\* starts, the engine on any image, the assembler on any source
Init ==
    /\ \/ phase = "new" /\ file \in Images /\ source = <<>>
       \/ phase = "asm_new" /\ file = <<>> /\ source \in Sources
    /\ lineNo = 0
    /\ labels = NoLabels
    /\ currentAddress = 0
    /\ text = <<>>
    /\ data = <<>>
    /\ currentSection = ".text"
    /\ bytecode = <<>>
    /\ asmError = ""
    /\ emitted = NoneEmitted
    /\ memory = [i \in {} |-> Zero32]
    /\ registers = [i \in 0..(NUM_REGISTERS - 1) |-> Zero32]
    /\ pc = Zero32
    /\ running = FALSE
    /\ steps = 0
    /\ diag = NoDiag
    /\ fetched = [pc |-> Zero32, instruction |-> Zero32]
    /\ memIndex = -1

\* memory after loadProgram's loop has stored the words 1..n of the file
RECURSIVE LoadWords(_, _, _)
LoadWords(mem, words, n) ==
    IF n = 0 THEN mem
    ELSE Store(LoadWords(mem, words, n - 1), n - 1, words[n])

\* VirtualMachine::loadProgram: the word at addr / 4 >= memory.size() throws
loadProgram ==
    /\ phase = "new"
    /\ IF Len(file) > MemWords
       THEN /\ memory' = LoadWords(memory, file, MemWords)
            /\ phase' = "thrown"
            /\ diag' = [pc |-> pc, what |-> "Program counter out of bounds"]
       ELSE /\ memory' = LoadWords(memory, file, Len(file))
            /\ phase' = "loaded"
            /\ diag' = diag
    /\ UNCHANGED <<asmVars, file, registers, pc, running, steps, fetched, memIndex>>

\* VirtualMachine::run, up to the loop
run ==
    /\ phase = "loaded"
    /\ pc' = Zero32
    /\ running' = TRUE
    /\ phase' = "run"
    /\ UNCHANGED <<asmVars, file, memory, registers, steps, diag, fetched, memIndex>>

\* the loop is at its head, about to test pc and fetch
AtLoopHead == phase = "run" /\ running

PcInMemory_Unchecked(p) == TRUE

\* the test before the fetch passes: pc / 4 < memory.size()
PcInMemory(p) == WordIndex(p) < MemWords

\* the throw before the fetch is outside the try block: it leaves run()
PcOutOfBounds ==
    /\ AtLoopHead
    /\ ~PcInMemory(pc)
    /\ phase' = "thrown"
    /\ diag' = [pc |-> pc, what |-> "Program counter out of bounds"]
    /\ UNCHANGED <<asmVars, file, memory, registers, pc, running, steps, fetched, memIndex>>

CanFetch == AtLoopHead /\ PcInMemory(pc) /\ steps < MaxSteps

Instruction == Load(memory, WordIndex(pc))

ZeroR0_Skipped(regs) == regs

\* registers[0] = 0 at the end of an iteration
ZeroR0(regs) == [regs EXCEPT ![0] = Zero32]

\* the rest of an iteration once the handler has returned or thrown
Finish(o) ==
    /\ steps' = steps + 1
    /\ fetched' = [pc |-> pc, instruction |-> Instruction]
    /\ UNCHANGED <<asmVars, file>>
    /\ CASE o.kind = "ok" ->
              /\ pc' = Add32(o.pc, U32(4))
              /\ registers' = ZeroR0(o.registers)
              /\ memory' = o.memory
              /\ running' = o.running
              /\ phase' = IF o.running THEN "run" ELSE "returned"
              /\ memIndex' = IF o.index >= 0 THEN o.index ELSE memIndex
              /\ diag' = diag
         [] o.kind = "fault" ->
              /\ diag' = [pc |-> o.pc, what |-> o.what]
              /\ running' = FALSE
              /\ phase' = "returned"
              /\ pc' = o.pc
              /\ registers' = o.registers
              /\ memory' = o.memory
              /\ memIndex' = memIndex
         [] o.kind = "crash" ->
              /\ phase' = "crashed"
              /\ memIndex' = o.index
              /\ UNCHANGED <<pc, registers, memory, running, diag>>

IsRType_UpTo12(op) == op <= 12

IsRType(op) == op <= 13

IsIType_Without31(op) == ~IsRType(op) /\ op <= 28

IsIType(op) == ~IsRType(op) /\ (op <= 28 \/ op = 31)

IsJType(op) == ~IsRType(op) /\ ~IsIType(op) /\ op <= 30

StepRType ==
    /\ CanFetch
    /\ IsRType(getOpcode(Instruction))
    /\ \E o \in executeRType(Instruction, registers, memory, pc) : Finish(o)

StepIType ==
    /\ CanFetch
    /\ IsIType(getOpcode(Instruction))
    /\ \E o \in executeIType(Instruction, registers, memory, pc) : Finish(o)

StepJType ==
    /\ CanFetch
    /\ IsJType(getOpcode(Instruction))
    /\ \E o \in executeJType(Instruction, registers, memory, pc) : Finish(o)

StepInvalid ==
    /\ CanFetch
    /\ LET op == getOpcode(Instruction)
       IN  /\ ~IsRType(op) /\ ~IsIType(op) /\ ~IsJType(op)
           /\ \E o \in Threw("Invalid opcode", registers, memory, pc) : Finish(o)

Next ==
    \/ assembleBegin
    \/ assembleSkip
    \/ assembleDirective
    \/ assembleInstruction
    \/ assembleReturn
    \/ writeOutput
    \/ loadProgram
    \/ run
    \/ PcOutOfBounds
    \/ StepRType
    \/ StepIType
    \/ StepJType
    \/ StepInvalid

Spec == Init /\ [][Next]_vars

-----------------------------------------------------------------------------
(* The code generators on their own: a mnemonic and operands are drawn and  *)
(* the generator of the mnemonic's format builds the word, as the second    *)
(* pass calls it on an instruction line.                                    *)

\* the text of register n
RegisterName(n) == "R" \o ToString(n)

Registers == 0..(NUM_REGISTERS - 1)

\* the mnemonics of a format
Mnemonics(type) == {m \in DOMAIN instructions : instructions[m].type = type}

\* int16_t
Immediates == (0 - 32768)..32767

\* immediates at the edges of the signed and of the unsigned reading
EdgeImmediates == {0 - 32768, 0 - 32767, 0 - 256, 0 - 255, -2, -1, 0, 1, 2, 255, 256, 32767}

\* the registers whose field is all zeros or all ones
EdgeRegisters == {0, NUM_REGISTERS - 1}

\* register triples in which every register appears in every field, next
\* to fields of zeros and fields of ones
RegisterTriples ==
    {t \in Registers \X Registers \X Registers :
        \/ t[1] \in EdgeRegisters /\ t[2] \in EdgeRegisters
        \/ t[1] \in EdgeRegisters /\ t[3] \in EdgeRegisters
        \/ t[2] \in EdgeRegisters /\ t[3] \in EdgeRegisters}

\* register pairs, likewise
RegisterPairs ==
    {t \in Registers \X Registers : t[1] \in EdgeRegisters \/ t[2] \in EdgeRegisters}

\* the mnemonic and registers the whole range of immediates is drawn with:
\* the highest opcode and two fields of ones
WholeRange == {<<"MAI", NUM_REGISTERS - 1, NUM_REGISTERS - 1>>}

\* a freshly constructed assembler about to generate one instruction
GenInit ==
    /\ phase = "gen_new"
    /\ file = <<>>
    /\ source = <<>>
    /\ lineNo = 0
    /\ labels = NoLabels
    /\ currentAddress = 0
    /\ text = <<>>
    /\ data = <<>>
    /\ currentSection = ".text"
    /\ bytecode = <<>>
    /\ asmError = ""
    /\ emitted = NoneEmitted
    /\ memory = [i \in {} |-> Zero32]
    /\ registers = [i \in Registers |-> Zero32]
    /\ pc = Zero32
    /\ running = FALSE
    /\ steps = 0
    /\ diag = NoDiag
    /\ fetched = [pc |-> Zero32, instruction |-> Zero32]
    /\ memIndex = -1

\* the generator returns its word, or throws
Generated(op, operands, g) ==
    /\ IF g.kind = "ok"
       THEN /\ emitted' = [line |-> 0, op |-> op, operands |-> operands,
                           word |-> g.word, address |-> currentAddress]
            /\ phase' = "generated"
            /\ asmError' = asmError
       ELSE /\ emitted' = emitted
            /\ phase' = "asm_thrown"
            /\ asmError' = g.error
    /\ UNCHANGED <<source, lineNo, labels, currentAddress, text, data,
                   currentSection, bytecode, file, vmVars>>

\* Assembler::generateRType on a register triple
encodeRType ==
    /\ phase = "gen_new"
    /\ \E op \in Mnemonics("R"), t \in RegisterTriples :
          LET operands == <<RegisterName(t[1]), RegisterName(t[2]), RegisterName(t[3])>>
          IN  Generated(op, operands, generateRType(op, operands))

\* Assembler::generateIType on two registers and a literal immediate
ITypeOn(op, rd, rs, immediate) ==
    LET operands == <<RegisterName(rd), RegisterName(rs), immediate>>
    IN  Generated(op, operands, generateIType(op, operands, labels, currentAddress))

encodeIType ==
    /\ phase = "gen_new"
    /\ \/ \E op \in Mnemonics("I") \ {"EXT"}, t \in RegisterPairs, v \in EdgeImmediates,
             prefix \in {"#", ""} :
             ITypeOn(op, t[1], t[2], prefix \o ToString(v))
       \/ \E w \in WholeRange, v \in Immediates :
             ITypeOn(w[1], w[2], w[3], "#" \o ToString(v))

\* EXT takes no operands
encodeEXT ==
    /\ phase = "gen_new"
    /\ Generated("EXT", <<>>, generateIType("EXT", <<>>, labels, currentAddress))

GenNext == encodeRType \/ encodeIType \/ encodeEXT

GenSpec == GenInit /\ [][GenNext]_vars

-----------------------------------------------------------------------------
(* Properties of the engine *)

\* an iteration of the loop of run() is taken: an instruction is fetched and
\* its handler runs
Executes == CanFetch /\ steps' = steps + 1

\* the instruction last fetched returned from its handler, and the loop is
\* back at its head
Retired(op) ==
    /\ steps > 0
    /\ phase = "run"
    /\ getOpcode(fetched.instruction) = op

\* C1: every LW/SW/LB/SB access that does not raise a memory fault
\* subscripts a word inside the memory vector (index < MEMORY_SIZE / 4).
C1_AccessInsideMemory == memIndex < MemWords

\* C3: register 0 holds zero whenever the loop is about to fetch and when
\* the engine has halted, normally or by a fault.
C3_RegisterZero ==
    (AtLoopHead \/ phase \in {"returned", "thrown"}) => registers[0] = Zero32

\* an ADDI with destination R0 and a non-zero sum has retired
C3_Witness ==
    /\ Retired(14)
    /\ getRd(fetched.instruction) = 0
    /\ Add32(registers[getRs(fetched.instruction)],
             U32(getImmediate(fetched.instruction))) # Zero32
    /\ registers[0] = Zero32

\* C4: every runtime fault (memory, division by zero, invalid opcode,
\* program counter out of bounds) ends run() as a normal halt: running is
\* false and run() has returned, no exception leaves run().
C4_FaultsEndRunNormally ==
    diag.what # "" => (phase = "returned" /\ ~running)

\* C5: after JUMP with address field A, the next instruction fetched is the
\* one at byte address A * 4, whenever that address is inside memory.
C5_JumpLandsOnTarget ==
    (Retired(29) /\ PcInMemory(U32(getJumpAddress(fetched.instruction) * 4)))
        => pc = U32(getJumpAddress(fetched.instruction) * 4)

\* the BEQ last fetched was taken (BEQ writes no register, so the comparison
\* reads the same values after it)
BeqTaken ==
    /\ Retired(26)
    /\ registers[getRd(fetched.instruction)] = registers[getRs(fetched.instruction)]

\* C8 as stated: a taken BEQ with immediate imm continues (imm - 1) words
\* after the BEQ: next PC = PC_of_BEQ + (imm - 1) * 4 modulo 2^32.
C8_BeqDisplacementStated ==
    BeqTaken =>
        pc = Add32(fetched.pc, U32((getImmediate(fetched.instruction) - 1) * 4))

\* C8 amended: a taken BEQ with immediate imm continues (imm - 3) words
\* after the BEQ: next PC = PC_of_BEQ + (imm - 3) * 4 modulo 2^32.
C8_BeqDisplacement ==
    BeqTaken =>
        pc = Add32(fetched.pc, U32((getImmediate(fetched.instruction) - 3) * 4))

\* a BEQ with a non-zero immediate was taken
C8_Witness == BeqTaken /\ getImmediate(fetched.instruction) = 5

\* C9: BEQ at P continues at P + (imm - 4) * 4 + 4 when registers[rd] =
\* registers[rs] and at P + 4 otherwise; BNE at P continues at
\* P + imm * 4 + 4 when registers[rd] # registers[rs] and at P + 4
\* otherwise; neither changes a register or memory.
C9_BranchArithmetic ==
    [][ (Executes /\ getOpcode(Instruction) \in {26, 27}) =>
          LET imm  == getImmediate(Instruction)
              same == registers[getRd(Instruction)] = registers[getRs(Instruction)]
              four == U32(4)
          IN  /\ pc' = CASE getOpcode(Instruction) = 26 /\ same ->
                              Add32(Add32(pc, U32((imm - 4) * 4)), four)
                         [] getOpcode(Instruction) = 27 /\ ~same ->
                              Add32(Add32(pc, U32(imm * 4)), four)
                         [] OTHER -> Add32(pc, four)
              /\ registers' = registers
              /\ memory' = memory ]_vars

\* a BNE with a negative immediate was taken
C9_Witness ==
    /\ Retired(27)
    /\ getImmediate(fetched.instruction) < 0
    /\ registers[getRd(fetched.instruction)] # registers[getRs(fetched.instruction)]
    /\ pc = Sub32(fetched.pc, U32(4))

\* C10: DIV with registers[rt] = 0 and DIVI with immediate 0 halt the
\* engine with a division-by-zero fault and leave every register, memory
\* and the program counter as they were before the instruction.
C10_DivisionByZero ==
    [][ (/\ Executes
         /\ \/ getOpcode(Instruction) = 3 /\ registers[getRt(Instruction)] = Zero32
            \/ getOpcode(Instruction) = 17 /\ getImmediate(Instruction) = 0)
        => /\ ~running'
           /\ phase' = "returned"
           /\ diag' = [pc |-> pc, what |-> "Division by zero"]
           /\ registers' = registers
           /\ memory' = memory
           /\ pc' = pc ]_vars

\* a DIV by a zero register faulted with a non-zero dividend
C10_Witness ==
    /\ diag.what = "Division by zero"
    /\ getOpcode(fetched.instruction) = 3
    /\ registers[getRs(fetched.instruction)] # Zero32
    /\ phase = "returned"

-----------------------------------------------------------------------------
(* Properties of the assembler together with the engine *)

\* the handler run() dispatches the opcode to
EngineFormat(opcode) ==
    IF IsRType(opcode) THEN "R" ELSE IF IsIType(opcode) THEN "I" ELSE "J"

\* the operand is taken as a label: it does not parse as a number and pass 1
\* recorded it
IsLabelOperand(operand) == ~parseImmediate(operand).ok /\ operand \in DOMAIN labels

\* C2: the opcode the assembler emits for a mnemonic is executed by the
\* engine as the operation the mnemonic names, both sides put it in the same
\* format, and every operation the engine implements for opcodes 0-31 has a
\* mnemonic.
C2_SharedOpcodeTable ==
    emitted.op \in DOMAIN instructions =>
        /\ OperationOf(getOpcode(emitted.word)) = emitted.op
        /\ EngineFormat(getOpcode(emitted.word)) = instructions[emitted.op].type
        /\ \A opcode \in 0..31 :
              \E m \in DOMAIN instructions :
                  instructions[m].opcode = opcode /\ m = OperationOf(opcode)

\* C6: after JAL with address field A at program counter P, register 31
\* holds P + 4 and the next instruction fetched is the one at byte address
\* A * 4; for a label operand, A * 4 is the address pass 1 recorded for it.
C6_JalLinksAndLands ==
    /\ Retired(30) =>
          /\ registers[31] = Add32(fetched.pc, U32(4))
          /\ pc = U32(getJumpAddress(fetched.instruction) * 4)
    /\ (emitted.op = "JAL" /\ IsLabelOperand(emitted.operands[1])) =>
          getJumpAddress(emitted.word) * 4 = labels[emitted.operands[1]]

\* the engine has run a JAL that the assembler generated for a label, and
\* is about to fetch the instruction at the label
C6_Witness ==
    /\ Retired(30)
    /\ source # <<>>
    /\ "f" \in DOMAIN labels
    /\ fetched.instruction = generateJType("JAL", <<"f">>, labels).word
    /\ pc = U32(labels["f"])
    /\ registers[31] = U32(4)
    /\ labels["f"] = 8

\* C7: the branch program assembles, and a BEQ with a label operand gets an
\* immediate that makes the engine, when the branch is taken, continue at
\* the label's address.
C7_BranchAgreement ==
    /\ source = BranchProgram => phase \notin {"asm_thrown", "crashed"}
    /\ (emitted.op = "BEQ" /\ IsLabelOperand(emitted.operands[3])) =>
          Add32(BeqTarget(U32(emitted.address), getImmediate(emitted.word)), U32(4))
              = U32(labels[emitted.operands[3]])

-----------------------------------------------------------------------------
(* Properties of the fetch *)

\* C11: every instruction fetched lies inside the loaded image: the program
\* counter it was fetched at is below 4 * (number of words loaded), a
\* program counter at or past the end of the image being a fault.
C11_PcWithinProgram == steps > 0 => WordIndex(fetched.pc) < Len(file)

\* C12: every instruction is fetched at a program counter inside memory
\* (pc / 4 < MEMORY_SIZE / 4), and when the loop is at its head with the
\* program counter outside memory the run stops with a program-counter
\* fault, nothing being fetched.
C12_FetchInsideMemory ==
    /\ [](steps > 0 => WordIndex(fetched.pc) < MemWords)
    /\ [][ (AtLoopHead /\ WordIndex(pc) >= MemWords) =>
              /\ phase' = "thrown"
              /\ diag' = [pc |-> pc, what |-> "Program counter out of bounds"]
              /\ fetched' = fetched
              /\ steps' = steps
              /\ registers' = registers
              /\ memory' = memory ]_vars

\* a taken BEQ wrapped the program counter around 2^32 and the run stopped
\* on the bounds test
C12_Witness ==
    /\ phase = "thrown"
    /\ steps > 0
    /\ getOpcode(fetched.instruction) = 26
    /\ pc = Sub32(fetched.pc, U32(12))
    /\ fetched.pc = Zero32
    /\ WordIndex(pc) >= MemWords
    /\ diag.what = "Program counter out of bounds"

-----------------------------------------------------------------------------
(* Properties of memory access *)

\* the physical word an access at address a is to touch: a / 4 below the
\* threshold, ((a - T) + C / 2) / 4 from the threshold on
AliasIndex(a) ==
    IF Lt32(a, U32(DATA_SECTION_START))
    THEN WordIndex(a)
    ELSE WordIndex(Add32(Sub32(a, U32(DATA_SECTION_START)), U32(MEMORY_SIZE \div 2)))

\* C13: an LW/SW/LB/SB at effective address a that raises no fault touches
\* the word ((a - T) + C / 2) / 4 when a >= T and the word a / 4 when a < T;
\* a store leaves its value in that word and a load takes its value from
\* that word, so a word stored through the data window is the word loaded
\* through the physical address, and conversely.
C13_DataWindowAlias ==
    [][ (Executes /\ getOpcode(Instruction) \in 22..25 /\ diag' = diag) =>
          LET rd == getRd(Instruction)
              a  == Add32(registers[getRs(Instruction)], U32(getImmediate(Instruction)))
              i  == AliasIndex(a)
              op == getOpcode(Instruction)
              mask == IF op \in {24, 25} THEN ByteMask ELSE AllOnes
          IN  /\ memIndex' = i
              /\ (i < MemWords /\ op \in {23, 25}) =>
                     Load(memory', i) = And32(registers[rd], mask)
              /\ (i < MemWords /\ op \in {22, 24} /\ rd # 0) =>
                     registers'[rd] = And32(Load(memory, i), mask) ]_vars

\* the word stored with SW at 0x10000004 has been loaded with LW at
\* MEMORY_SIZE / 2 + 4
C13_Witness ==
    /\ Retired(22)
    /\ file = AliasProgram
    /\ fetched.pc = U32(12)
    /\ registers[3] = U32((MEMORY_SIZE \div 2) + 4)
    /\ registers[1] = U32(DATA_SECTION_START + 4)
    /\ registers[2] = registers[1]
    /\ memIndex = (MEMORY_SIZE \div 8) + 1

-----------------------------------------------------------------------------
(* Properties of the assembler *)

\* the second pass is at an instruction whose label operand (the third of
\* an I-type, the first of a J-type) is no number and was not recorded by
\* pass 1, its register operands being well formed
UnknownLabelReference ==
    /\ InPass2
    /\ ~Skipped(source[lineNo])
    /\ LET op == ToUpper(FirstToken(source[lineNo]))
           operands == Operands(source[lineNo])
       IN  /\ op \in DOMAIN instructions
           /\ \/ /\ instructions[op].type = "J"
                 /\ Len(operands) >= 1
                 /\ ~parseImmediate(operands[1]).ok
                 /\ operands[1] \notin DOMAIN labels
              \/ /\ instructions[op].type = "I"
                 /\ op # "EXT"
                 /\ Len(operands) >= 3
                 /\ parseRegister(operands[1]).ok
                 /\ parseRegister(operands[2]).ok
                 /\ ~parseImmediate(operands[3]).ok
                 /\ operands[3] \notin DOMAIN labels

\* C14: an instruction whose label operand pass 1 did not record makes
\* assemble() fail with the unknown-label error at that line; nothing is
\* done after the failure (no later line is processed) and no image is
\* written, the words generated for earlier lines included.
C14_UnknownLabelFails ==
    /\ [][ UnknownLabelReference =>
              /\ phase' = "asm_thrown"
              /\ asmError' = "Unknown label"
              /\ lineNo' = lineNo
              /\ text' = text /\ data' = data
              /\ file' = <<>> ]_vars
    /\ [][phase # "asm_thrown"]_vars
    /\ [](phase = "asm_thrown" => file = <<>>)

\* a JUMP to a label that is nowhere failed after a word had been generated
\* and with a line still to come
C14_Witness ==
    /\ phase = "asm_thrown"
    /\ asmError = "Unknown label"
    /\ Len(text) = 1
    /\ lineNo = 2
    /\ Len(source) = 3
    /\ ToUpper(FirstToken(source[lineNo])) = "JUMP"
    /\ file = <<>>

-----------------------------------------------------------------------------
(* Properties of the encoding *)

\* C15: the word the R-type generator builds for a mnemonic of opcode 0-13
\* and a register triple (rd, rs, rt), each in 0..31, decodes with
\* getOpcode, getRd, getRs, getRt to that opcode and to (rd, rs, rt).
C15_RTypeRoundTrip ==
    (phase = "generated" /\ emitted.op \in Mnemonics("R")) =>
        /\ getOpcode(emitted.word) = instructions[emitted.op].opcode
        /\ getOpcode(emitted.word) \in 0..13
        /\ emitted.operands = << RegisterName(getRd(emitted.word)),
                                 RegisterName(getRs(emitted.word)),
                                 RegisterName(getRt(emitted.word)) >>

\* MA R31, R0, R17 was generated: the highest opcode, a field of ones next
\* to a field of zeros
C15_Witness ==
    /\ phase = "generated"
    /\ emitted.op = "MA"
    /\ emitted.operands = <<"R31", "R0", "R17">>
    /\ emitted.word = RWord(13, 31, 0, 17)

\* C16: the word the I-type generator builds for a mnemonic that takes an
\* immediate (every I-type mnemonic but EXT, which takes no operands) and a
\* literal v in -32768..32767 decodes with getImmediate to the signed value
\* v, and its opcode, rd and rs fields are those of the mnemonic and of the
\* register operands whatever v is.
C16_ImmediateRoundTrip ==
    (phase = "generated" /\ emitted.op \in Mnemonics("I") /\ emitted.op # "EXT") =>
        /\ emitted.operands[3] \in
              { ToString(getImmediate(emitted.word)),
                "#" \o ToString(getImmediate(emitted.word)) }
        /\ getOpcode(emitted.word) = instructions[emitted.op].opcode
        /\ emitted.operands[1] = RegisterName(getRd(emitted.word))
        /\ emitted.operands[2] = RegisterName(getRs(emitted.word))

\* ADDI R31, R31, #-1 was generated and decodes to -1
C16_Witness ==
    /\ phase = "generated"
    /\ emitted.op = "ADDI"
    /\ emitted.operands = <<"R31", "R31", "#-1">>
    /\ getImmediate(emitted.word) = -1
    /\ emitted.word = <<14 * 1024 + 31 * 32 + 31, Half - 1>>

-----------------------------------------------------------------------------
(* Properties of the output image *)

\* the values of a .word line, as words
WordValues(line) ==
    [k \in 1..Len(RestTokens(line)) |-> U32(stoi(DropComma(RestTokens(line)[k])).value)]

\* C17: the image written after a successful assembly is the words of .text
\* in the order they were generated followed by the words of .data in the
\* order they were generated; an instruction's word is appended to the
\* section that is active at its line, the values of a .word line are
\* appended to .data whatever section is active, and the bytecode buffer
\* contributes nothing.
C17_ImageLayout ==
    /\ [](bytecode = <<>>)
    /\ []((source # <<>> /\ file # <<>>) => file = text \o data)
    /\ []((source # <<>> /\ phase \in {"new", "loaded", "run", "returned", "thrown"})
            => file = text \o data)
    /\ [][ (phase = "assembled" /\ phase' # phase) => file' = text \o data ]_vars
    /\ [][ (InPass2 /\ lineNo' = lineNo + 1 /\ ~Skipped(source[lineNo])) =>
              IF Char(FirstToken(source[lineNo]), 1) # "."
              THEN /\ emitted'.line = lineNo
                   /\ IF currentSection = ".text"
                      THEN text' = Append(text, emitted'.word) /\ data' = data
                      ELSE data' = Append(data, emitted'.word) /\ text' = text
              ELSE IF FirstToken(source[lineNo]) = ".word"
              THEN text' = text /\ data' = data \o WordValues(source[lineNo])
              ELSE text' = text /\ data' = data ]_vars

\* an image was written with a .word value given while .text was active, an
\* instruction generated while .data was active, and .text resumed later
C17_Witness ==
    /\ phase = "new"
    /\ Len(source) = 7
    /\ text = <<IWord(14, 1, 0, 1), IWord(31, 0, 0, 0)>>
    /\ data = <<U32(9), U32(7), U32(8), Zero32>>
    /\ file = text \o data

-----------------------------------------------------------------------------
(* Properties of the loop of run() *)

\* C18: run() starts the engine running with the program counter 0; EXT
\* (opcode 31) advances the program counter by 4, zeroes register 0, leaves
\* the other registers and memory alone and halts the engine; the engine
\* halts only by EXT or by a fault, so no other instruction that does not
\* fault halts it; and once it has halted nothing changes any more: no
\* register, no memory word, not the program counter, and nothing is
\* fetched.
C18_HaltingProtocol ==
    /\ [][ phase = "loaded" => (running' /\ pc' = Zero32 /\ phase' = "run") ]_vars
    /\ [][ (Executes /\ getOpcode(Instruction) = 31) =>
              /\ pc' = Add32(pc, U32(4))
              /\ registers' = [registers EXCEPT ![0] = Zero32]
              /\ memory' = memory
              /\ ~running'
              /\ phase' = "returned"
              /\ diag' = diag ]_vars
    /\ [][ (running /\ ~running') =>
              /\ Executes
              /\ phase' = "returned"
              /\ \/ getOpcode(Instruction) = 31 /\ diag' = diag
                 \/ diag' # diag /\ diag'.what # "" ]_vars
    /\ [][ phase # "returned" ]_vars

\* the engine executed an instruction and then halted on an EXT, with no
\* fault
C18_Witness ==
    /\ phase = "returned"
    /\ ~running
    /\ steps >= 2
    /\ getOpcode(fetched.instruction) = 31
    /\ pc = Add32(fetched.pc, U32(4))
    /\ registers[1] # Zero32
    /\ diag = NoDiag

\* C19: a fetched word goes to exactly one handler by its opcode field:
\* 0-13 to the R-type handler, 14-28 and 31 to the I-type handler, 29-30 to
\* the J-type handler; a word with opcode field 32-63 goes to none and
\* raises the invalid-opcode fault, which halts the engine with registers,
\* memory and the program counter unchanged.
C19_DispatchPartition ==
    /\ [][ Executes =>
              LET op == getOpcode(Instruction)
              IN  /\ StepRType <=> op \in 0..13
                  /\ StepIType <=> op \in (14..28) \cup {31}
                  /\ StepJType <=> op \in 29..30
                  /\ StepInvalid <=> op \in 32..63 ]_vars
    /\ [][ (Executes /\ getOpcode(Instruction) \in 32..63) =>
              /\ ~running'
              /\ phase' = "returned"
              /\ diag' = [pc |-> pc, what |-> "Invalid opcode"]
              /\ registers' = registers
              /\ memory' = memory
              /\ pc' = pc ]_vars

\* a word with opcode field 63 was fetched after a register had been
\* written, and the engine halted on the invalid-opcode fault
C19_Witness ==
    /\ phase = "returned"
    /\ diag.what = "Invalid opcode"
    /\ getOpcode(fetched.instruction) = 63
    /\ registers[1] = U32(5)
    /\ pc = fetched.pc
    /\ pc = U32(4)

-----------------------------------------------------------------------------
(* Properties of pass 1 *)

\* the line is looked at by pass 1: it is not empty and does not start
\* with ';'
Looked(line) == line # "" /\ Char(line, 1) # ";"

\* the line without its comment
Uncommented(line) ==
    IF Find(line, ";") = 0 THEN line ELSE SubSeq(line, 1, Find(line, ";") - 1)

\* the position of the first ':' of the line without its comment, or 0
Colon(line) == Find(Uncommented(line), ":")

\* the line binds a label
Labelled(line) == Looked(line) /\ Colon(line) # 0

\* the label the line binds: what stands before the ':', without its white
\* space
LabelOf(line) == RemoveSpaces(SubSeq(Uncommented(line), 1, Colon(line) - 1))

\* the line is counted: what is left of it after its comment and its
\* "label:" prefix are removed is not the empty string
Counted(line) ==
    /\ Looked(line)
    /\ Len(Uncommented(line)) > Colon(line)

\* the number of counted lines before line i
CountedBefore(lines, i) == Cardinality({j \in 1..(i - 1) : Counted(lines[j])})

\* C20: after pass 1 the label table holds exactly the labels of the
\* source, each bound (by the last line that binds it) to 4 times the
\* number of counted lines before that line, a line being counted when it
\* is not empty, does not start with ';' and has a non-empty residue after
\* its comment and "label:" prefix are removed, directive lines like
\* instruction lines; and pass 1 generates no word.
C20_PassOneAddresses ==
    /\ (phase \in {"pass2", "assembled", "asm_thrown"}) =>
          /\ DOMAIN labels = {LabelOf(source[i]) : i \in {j \in 1..Len(source) : Labelled(source[j])}}
          /\ \A i \in 1..Len(source) :
                (/\ Labelled(source[i])
                 /\ \A j \in (i + 1)..Len(source) :
                        Labelled(source[j]) => LabelOf(source[j]) # LabelOf(source[i]))
                => labels[LabelOf(source[i])] = 4 * CountedBefore(source, i)
    /\ (phase = "pass2" /\ lineNo = 1) =>
          (text = <<>> /\ data = <<>> /\ bytecode = <<>> /\ emitted = NoneEmitted)

\* pass 1 has bound a label that follows an instruction, a .word line given
\* in .text and a .data line, and the second pass has not begun
C20_Witness ==
    /\ phase = "pass2"
    /\ lineNo = 1
    /\ Len(source) = 7
    /\ source[3] = ".data"
    /\ Labelled(source[4])
    /\ LabelOf(source[4]) = "v"
    /\ labels["v"] = 12
    /\ text = <<>>

-----------------------------------------------------------------------------
(* Properties of NOP *)

\* C21: the assembler generates the all-zero word for NOP, and the engine
\* executing the all-zero word changes no register and no memory word,
\* raises nothing, keeps running, and advances the program counter by 4.
C21_NopIsNoOp ==
    /\ [](emitted.op = "NOP" => emitted.word = Zero32)
    /\ [][ (Executes /\ Instruction = Zero32) =>
              /\ registers' = registers
              /\ memory' = memory
              /\ running'
              /\ phase' = "run"
              /\ diag' = diag
              /\ pc' = Add32(pc, U32(4)) ]_vars

\* a NOP line was assembled to the all-zero word, and the engine has run
\* that word of the image after an instruction that wrote a register
C21_Witness ==
    /\ Retired(0)
    /\ Len(source) = 2
    /\ ToUpper(FirstToken(source[2])) = "NOP"
    /\ file = <<IWord(14, 1, 0, -1), Zero32>>
    /\ fetched = [pc |-> U32(4), instruction |-> Zero32]
    /\ registers[1] = AllOnes
    /\ pc = U32(8)

-----------------------------------------------------------------------------
(* Properties of label operands *)

\* C22: in the word generated for an I-type instruction whose third operand
\* is no number but a recorded label, the immediate field is (label address
\* - (currentAddress + 4)) modulo 2^16, currentAddress being the address
\* counter of the second pass at the line; for a J-type instruction with a
\* label operand the address field is (label address / 4) modulo 2^26; an
\* operand that parses as a number is used as the number, a label of that
\* name notwithstanding.
C22_LabelFormulas ==
    /\ (emitted.op \in Mnemonics("I") /\ emitted.op # "EXT") =>
          LET operand == emitted.operands[3]
              p == parseImmediate(operand)
          IN  /\ p.ok \/ operand \in DOMAIN labels
              /\ emitted.word[2] =
                    IF p.ok THEN p.value % 2^16
                    ELSE (labels[operand] - (emitted.address + 4)) % 2^16
    /\ emitted.op \in Mnemonics("J") =>
          LET operand == emitted.operands[1]
              p == parseImmediate(operand)
          IN  /\ p.ok \/ operand \in DOMAIN labels
              /\ getJumpAddress(emitted.word) =
                    IF p.ok THEN p.value % 2^26
                    ELSE (labels[operand] \div 4) % 2^26

\* a SUBI at address 4 was generated with a label bound to 0: a backward
\* displacement of -8
C22_Witness ==
    /\ emitted.op = "SUBI"
    /\ emitted.operands[3] = "l"
    /\ emitted.address = 4
    /\ labels["l"] = 0
    /\ emitted.word[2] = Half - 8

\* a JUMP was generated with an operand that is both a number and a label
C22_WitnessLiteral ==
    /\ emitted.op = "JUMP"
    /\ emitted.operands[1] \in DOMAIN labels
    /\ parseImmediate(emitted.operands[1]).ok
    /\ getJumpAddress(emitted.word) = 8

-----------------------------------------------------------------------------
(* Properties of the byte operations *)

\* the address of the word the byte address a lies in
WordOf(a) == <<a[1], a[2] - (a[2] % 4)>>

\* the low 8 bits of a word, as a word
LowByte(w) == <<0, w[2] % 256>>

\* C23: SB that raises no fault replaces the whole word of the slot of its
\* address by registers[rd] & 0xFF (the upper 24 bits become zero) and
\* changes no other word; the slot is that of the 4-byte word the address
\* lies in, so stores to the bytes of one word replace one another; LB puts
\* (word of the slot) & 0xFF into rd and LW the whole word, so LW after SB
\* at the same address gives registers[rd] & 0xFF.
C23_ByteOperations ==
    [][ (Executes /\ getOpcode(Instruction) \in {22, 24, 25} /\ diag' = diag) =>
          LET rd == getRd(Instruction)
              a  == Add32(registers[getRs(Instruction)], U32(getImmediate(Instruction)))
              i  == AliasIndex(a)
              op == getOpcode(Instruction)
          IN  /\ memIndex' = AliasIndex(WordOf(a))
              /\ (op = 25 /\ i < MemWords) =>
                    /\ Load(memory', i) = LowByte(registers[rd])
                    /\ \A j \in (DOMAIN memory \cup DOMAIN memory') \ {i} :
                          Load(memory', j) = Load(memory, j)
              /\ (op = 24 /\ i < MemWords /\ rd # 0) =>
                    /\ registers'[rd] = LowByte(Load(memory, i))
                    /\ memory' = memory
              /\ (op = 22 /\ i < MemWords /\ rd # 0) =>
                    /\ registers'[rd] = Load(memory, i)
                    /\ memory' = memory ]_vars

\* two SBs stored to bytes 1 and 2 of word 5, which held 0xAABBCCDD: the
\* word is the low byte of the second store
C23_Witness ==
    /\ Retired(25)
    /\ file = ByteProgram
    /\ fetched.pc = U32(12)
    /\ registers[1] = U32(-2)
    /\ registers[2] = U32(308)
    /\ memIndex = 5
    /\ Load(memory, 5) = <<0, 52>>

-----------------------------------------------------------------------------
(* Properties of the two passes together *)

\* the second pass generates a word for the line
InstructionLine(line) == ~Skipped(line) /\ Char(FirstToken(line), 1) # "."

\* C24: when assemble() has accepted the source, the address pass 1 bound
\* to a label is the address counter the second pass had when it generated
\* the first instruction at or after the label's line, and with .text
\* active the address counter is 4 times the number of words in .text.
C24_PassesAgree ==
    phase = "assembled" =>
        /\ emitted.line > 0 =>
              \A j \in 1..emitted.line :
                  (/\ Labelled(source[j])
                   /\ \A k \in (j + 1)..Len(source) :
                          Labelled(source[k]) => LabelOf(source[k]) # LabelOf(source[j])
                   /\ \A k \in j..(emitted.line - 1) : ~InstructionLine(source[k]))
                  => labels[LabelOf(source[j])] = emitted.address
        /\ currentSection = ".text" => currentAddress = 4 * Len(text)

-----------------------------------------------------------------------------
(* Properties of the register fields *)

\* the register numbers the generator reads from the operands of the last
\* instruction generated: three for an R-type with three operands, two for
\* an R-type with two and for an I-type that is not EXT, none otherwise
RegisterOperands ==
    LET type == instructions[emitted.op].type
        n == IF type = "R" THEN (IF Len(emitted.operands) >= 3 THEN 3
                                 ELSE IF Len(emitted.operands) = 2 THEN 2 ELSE 0)
             ELSE IF type = "I" /\ emitted.op # "EXT" THEN 2
             ELSE 0
    IN  [k \in 1..n |-> parseRegister(emitted.operands[k]).value]

\* the register fields of a word, in the order of the operands
RegisterFields(word) == <<getRd(word), getRs(word), getRt(word)>>

\* C25: bits 31..26 of the word generated for an instruction line are the
\* opcode of the line's mnemonic whatever numbers its R<n> tokens carry,
\* and an R<n> with n outside 0..31 does not disturb another field: every
\* register field whose operand is in 0..31 holds that operand.
C25_OpcodeBitsKept ==
    emitted.op \in DOMAIN instructions =>
        /\ getOpcode(emitted.word) = instructions[emitted.op].opcode
        /\ \A k \in DOMAIN RegisterOperands :
              RegisterOperands[k] \in 0..31 =>
                  RegisterFields(emitted.word)[k] = RegisterOperands[k]

====
